---- MODULE Spec2Model ----
(***************************************************************************)
(* Weather car-cover planner: the advisory classifier (utils/weather.ts),  *)
(* the DayCard component and the WeatherScreen acquisition cycle           *)
(* (permission -> position -> reverse geocode -> Open-Meteo -> map ->      *)
(* slice -> publish), as a state machine over the screen's React state.    *)
(*                                                                         *)
(* Encoding.  A JavaScript value that may be undefined/null is a sequence  *)
(* of length 0 (absent) or 1 (present).  A probability (a double obtained  *)
(* as popRaw / 100) is the exact fraction [num, den]; comparisons with the *)
(* literals 0.4 and 0.2 are done by cross-multiplication.  An ISO date     *)
(* string is the number of the day since 1970-01-01.  Every synchronous    *)
(* stretch of fetchWeather between two awaits is one action: React         *)
(* batches the state updates of one stretch into one render.               *)
(***************************************************************************)
EXTENDS Integers, Sequences, FiniteSets, TLC

VARIABLES loading, refreshing, error, daily, place, coords,
          mounted, started, inflight, last, card

vars == <<loading, refreshing, error, daily, place, coords,
          mounted, started, inflight, last, card>>

(* ---------------------------------------------------------------- bounds *)

\* Acquisition cycles started in one run (the mount effect plus refreshes).
MaxCycles == 2

\* Longest date series a provider response carries.
MaxDates == 8

(* -------------------------------------------------------------- encoding *)

None == <<>>

Some(x) == <<x>>

Rat(n, d) == [num |-> n, den |-> d]

\* p >= n/d, for positive denominators.
RatGeq(p, n, d) == p.num * d >= n * p.den

(* ------------------------------------------------------ utils/weather.ts *)

getCarCoverAdvice_strict(d) ==
    LET pop == IF d.pop = None THEN Rat(0, 1) ELSE d.pop[1]
        code == IF d.weather = None THEN 800
                ELSE IF d.weather[1] = <<>> THEN 800
                ELSE IF d.weather[1][1].id = None THEN 800
                ELSE d.weather[1][1].id[1]
        willRainLikely == ~RatGeq(Rat(4, 10), pop.num, pop.den)
        isStormy == code >= 200 /\ code < 600
    IN  IF willRainLikely \/ isStormy THEN "no"
        ELSE IF RatGeq(pop, 2, 10) THEN "optional"
        ELSE "cover"

getCarCoverAdvice(d) ==
    LET pop == IF d.pop = None THEN Rat(0, 1) ELSE d.pop[1]
        code == IF d.weather = None THEN 800
                ELSE IF d.weather[1] = <<>> THEN 800
                ELSE IF d.weather[1][1].id = None THEN 800
                ELSE d.weather[1][1].id[1]
        willRainLikely == RatGeq(pop, 4, 10)
        isStormy == code >= 200 /\ code < 600
    IN  IF willRainLikely \/ isStormy THEN "no"
        ELSE IF RatGeq(pop, 2, 10) THEN "optional"
        ELSE "cover"

adviceLabel(advice) ==
    CASE advice = "cover" -> "Cover your car"
      [] advice = "optional" -> "Cover optional"
      [] OTHER -> "No cover needed"

adviceColor(advice) ==
    CASE advice = "no" -> "#dc2626"
      [] advice = "optional" -> "#f97316"
      [] OTHER -> "#16a34a"

(* ------------------------------------------------ components/DayCard.tsx *)

DayCard(day, index) ==
    LET advice == getCarCoverAdvice(day)
        first == IF day.weather = None THEN None
                 ELSE IF day.weather[1] = <<>> THEN None
                 ELSE Some(day.weather[1][1])
        iconCode == IF first = None THEN "" ELSE first[1].icon
    IN  [index |-> index,
         advice |-> advice,
         label |-> adviceLabel(advice),
         badgeColor |-> adviceColor(advice),
         iconUrl |-> IF iconCode # ""
                     THEN Some("https://openweathermap.org/img/wn/" \o iconCode \o "@2x.png")
                     ELSE None,
         description |-> IF first = None THEN "" ELSE first[1].description]

(* ------------------------------------------- screens/WeatherScreen.tsx *)

describeWeatherCode(code) ==
    IF code = None THEN ""
    ELSE LET c == code[1]
         IN  IF c = 0 THEN "Clear sky"
             ELSE IF c = 1 \/ c = 2 THEN "Mainly clear"
             ELSE IF c = 3 THEN "Cloudy"
             ELSE IF c >= 45 /\ c <= 48 THEN "Fog"
             ELSE IF c >= 51 /\ c <= 57 THEN "Drizzle"
             ELSE IF c >= 61 /\ c <= 67 THEN "Rain"
             ELSE IF c >= 71 /\ c <= 77 THEN "Snow"
             ELSE IF c >= 80 /\ c <= 82 THEN "Rain showers"
             ELSE IF c >= 95 /\ c <= 99 THEN "Thunderstorm"
             ELSE "Weather code " \o ToString(c)

\* array?.[index]: absent when the array is absent or too short (index from 1).
At(arr, index) ==
    IF arr = None THEN None
    ELSE IF index <= Len(arr[1]) THEN Some(arr[1][index])
    ELSE None

\* new Date(dateStr + "T12:00:00").getTime() / 1000, rounded: local noon of
\* the day, with the device clock on UTC.
NoonSeconds(dateStr) == dateStr * 86400 + 12 * 3600

StoredCode_owm(d, index) ==
    LET c == At(d.weathercode, index)
    IN  IF c = None THEN 0
        ELSE IF c[1] >= 95 /\ c[1] <= 99 THEN 200 + (c[1] - 95)
        ELSE c[1]

\* d.weathercode?.[index] ?? 0
StoredCode(d, index) ==
    LET c == At(d.weathercode, index)
    IN  IF c = None THEN 0 ELSE c[1]

\* The callback of d.time.map: one DailyWeather from the entries at index.
MapDay(d, index) ==
    LET popAt == At(d.precipitation_probability_max, index)
        popRaw == IF popAt = None THEN 0 ELSE popAt[1]
        code == StoredCode(d, index)
        description == describeWeatherCode(Some(code))
    IN  [dt |-> NoonSeconds(d.time[1][index]),
         temp |-> [max |-> At(d.temperature_2m_max, index),
                   min |-> At(d.temperature_2m_min, index)],
         pop |-> Some(Rat(popRaw, 100)),
         weather |-> Some(<<[id |-> Some(code),
                             main |-> description,
                             description |-> description,
                             icon |-> ""]>>)]

SliceDays_all(mapped) == mapped

\* mapped.slice(0, 7)
SliceDays(mapped) ==
    SubSeq(mapped, 1, IF Len(mapped) < 7 THEN Len(mapped) ELSE 7)

(* ------------------------------------------------ what the world can answer *)

PermissionStatuses == {"granted", "denied", "undetermined"}

\* loc.coords of a resolved getCurrentPositionAsync.
Positions == {[latitude |-> 40, longitude |-> -75],
              [latitude |-> 51, longitude |-> 0]}

\* Values a rejected await throws: an error with, or without, a message.
Rejections == {[message |-> Some("Network Error")],
               [message |-> Some("Request failed with status code 500")],
               [message |-> None]}

Addresses == {[city |-> Some("Philadelphia"), region |-> Some("PA"), country |-> Some("US")],
              [city |-> None, region |-> Some("PA"), country |-> Some("US")],
              [city |-> None, region |-> Some(""), country |-> None]}

\* What reverseGeocodeAsync resolves to: null, no candidate, or one candidate.
GeocodeResults == {None, Some(<<>>)} \cup {Some(<<a>>) : a \in Addresses}

PopVals == <<50, 10, 20, 39, 40, 19, 0, 100>>

CodeVals == <<61, 95, 0, 3, 300, 45>>

Shapes == {"full", "noPop", "noCode", "shortPop", "shortCode",
           "shortMax", "shortMin", "noMax", "noMin", "noTime"}

Series(n, vals, shift) ==
    [i \in 1..n |-> vals[((i - 1 + shift) % Len(vals)) + 1]]

Short(n) == IF n > 0 THEN n - 1 ELSE 0

\* res.data of a resolved axios.get: n dates from 2025-11-17 on, the per-day
\* arrays as the shape says (absent, or one entry short of the date series).
Response(n, shape, shift) ==
    [daily |-> Some(
       [time |-> IF shape = "noTime" THEN None
                 ELSE Some([i \in 1..n |-> 20408 + i]),
        temperature_2m_max |->
            IF shape = "noMax" THEN None
            ELSE Some([i \in 1..(IF shape = "shortMax" THEN Short(n) ELSE n) |-> 14 + i]),
        temperature_2m_min |->
            IF shape = "noMin" THEN None
            ELSE Some([i \in 1..(IF shape = "shortMin" THEN Short(n) ELSE n) |-> 4 + i]),
        precipitation_probability_max |->
            IF shape = "noPop" THEN None
            ELSE Some(Series(IF shape = "shortPop" THEN Short(n) ELSE n, PopVals, shift)),
        weathercode |->
            IF shape = "noCode" THEN None
            ELSE Some(Series(IF shape = "shortCode" THEN Short(n) ELSE n, CodeVals, 0))])]

Responses ==
    {[daily |-> None]}
    \cup {Response(n, "full", shift) : n \in 0..MaxDates, shift \in 0..2}
    \cup {Response(n, shape, 0) : n \in 0..MaxDates, shape \in Shapes}

(* ------------------------------------------------------------ the screen *)

\* {loading && !refreshing && <ActivityIndicator/>}
LoadingViewRendered == loading /\ ~refreshing

\* {error && !loading && <Text>{error}</Text>}
ErrorViewRendered == error # None /\ error # Some("") /\ ~loading

\* {!loading && !error && <ScrollView>...}
ListViewRendered == ~loading /\ (error = None \/ error = Some(""))

RefreshControlRendered_always == TRUE

\* The RefreshControl is a prop of the ScrollView of the list view.
RefreshControlRendered == ListViewRendered

\* {place && <Text>Location: ...}
PlaceRendered == place # None /\ place # Some("")

\* daily.map((day, idx) => <DayCard day={day} index={idx} />)
Cards == [i \in 1..Len(daily) |-> DayCard(daily[i], i - 1)]

Init ==
    /\ loading = TRUE
    /\ refreshing = FALSE
    /\ error = None
    /\ daily = <<>>
    /\ place = None
    /\ coords = None
    /\ mounted = FALSE
    /\ started = 0
    /\ inflight = {}
    /\ last = None
    /\ card = None

\* fetchWeather up to its first await: clears the error, raises loading and
\* issues the permission request.
StartFetch ==
    /\ error' = None
    /\ loading' = TRUE
    /\ started' = started + 1
    /\ inflight' = inflight \cup
          {[id |-> started + 1,
            pc |-> "permission",
            pre |-> [place |-> place, coords |-> coords, daily |-> daily],
            issued |-> {"permission"},
            status |-> None,
            position |-> None,
            geocode |-> "none",
            response |-> None,
            thrown |-> None]}
    /\ last' = None
    /\ card' = None
    /\ UNCHANGED <<daily, place, coords>>

\* useEffect(() => { fetchWeather(); }, [fetchWeather])
UseEffect ==
    /\ ~mounted
    /\ mounted' = TRUE
    /\ StartFetch
    /\ UNCHANGED refreshing

\* onRefresh, offered by the RefreshControl.
OnRefresh ==
    /\ mounted
    /\ RefreshControlRendered
    /\ started < MaxCycles
    /\ refreshing' = TRUE
    /\ StartFetch
    /\ UNCHANGED mounted

\* The finally block.  The finished cycle's locals are kept for the record,
\* without its snapshot of the state it started from.
Finally(c, locals, outcome) ==
    /\ loading' = FALSE
    /\ refreshing' = FALSE
    /\ inflight' = inflight \ {c}
    /\ last' = Some([locals EXCEPT !.pc = outcome, !.pre = None])
    /\ card' = None
    /\ UNCHANGED <<mounted, started>>

\* catch (err): setError(err?.message ?? "Failed to load weather.")
Catch(c, locals, err) ==
    /\ error' = IF err.message = None THEN Some("Failed to load weather.")
                ELSE err.message
    /\ Finally(c, [locals EXCEPT !.thrown = Some([at |-> locals.pc, err |-> err])], "error")
    /\ UNCHANGED <<daily, place, coords>>

Step(c, next) ==
    /\ inflight' = (inflight \ {c}) \cup {next}
    /\ card' = None
    /\ UNCHANGED <<loading, refreshing, error, mounted, started, last>>

PermissionGranted_lax(status) == status # "denied"

\* status !== "granted" is the denial test.
PermissionGranted(status) == status = "granted"

\* requestForegroundPermissionsAsync resolves.
PermissionResolved(c, status) ==
    /\ c.pc = "permission"
    /\ IF ~PermissionGranted(status)
       THEN /\ error' = Some("Location permission denied. Enable it in Settings.")
            /\ Finally(c, [c EXCEPT !.status = Some(status)], "error")
            /\ UNCHANGED <<daily, place, coords>>
       ELSE /\ Step(c, [c EXCEPT !.pc = "position",
                                 !.status = Some(status),
                                 !.issued = @ \cup {"position"}])
            /\ UNCHANGED <<daily, place, coords>>

\* getCurrentPositionAsync resolves.
PositionResolved(c, loc) ==
    /\ c.pc = "position"
    /\ coords' = Some([lat |-> loc.latitude, lon |-> loc.longitude])
    /\ Step(c, [c EXCEPT !.pc = "geocode",
                         !.position = Some(loc),
                         !.issued = @ \cup {"geocode"}])
    /\ UNCHANGED <<daily, place>>

RECURSIVE Join(_)
\* parts.join(", ")
Join(parts) ==
    IF parts = <<>> THEN ""
    ELSE IF Len(parts) = 1 THEN parts[1]
    ELSE parts[1] \o ", " \o Join(Tail(parts))

\* [addr.city, addr.region, addr.country].filter(Boolean).join(", ") || "Unknown location"
NiceName(addr) ==
    LET truthy(f) == f # None /\ f # Some("")
        parts == SelectSeq(<<addr.city, addr.region, addr.country>>, truthy)
        joined == Join([i \in 1..Len(parts) |-> parts[i][1]])
    IN  IF joined = "" THEN "Unknown location" ELSE joined

\* reverseGeocodeAsync resolves.
GeocodeResolved(c, results) ==
    /\ c.pc = "geocode"
    /\ place' = IF results # None /\ Len(results[1]) > 0
                THEN Some(NiceName(results[1][1]))
                ELSE Some("Unknown location")
    /\ Step(c, [c EXCEPT !.pc = "http",
                         !.geocode = IF results # None /\ Len(results[1]) > 0
                                     THEN "named" ELSE "empty",
                         !.issued = @ \cup {"http"}])
    /\ UNCHANGED <<daily, coords>>

GeocodeRejected_fatal(c, err) ==
    /\ c.pc = "geocode"
    /\ Catch(c, [c EXCEPT !.geocode = "rejected"], err)

\* reverseGeocodeAsync rejects: the inner catch clears the place and goes on.
GeocodeRejected(c, err) ==
    /\ c.pc = "geocode"
    /\ place' = None
    /\ Step(c, [c EXCEPT !.pc = "http",
                         !.geocode = "rejected",
                         !.issued = @ \cup {"http"}])
    /\ UNCHANGED <<daily, coords>>

\* Any of the three other awaits rejects: the outer catch, then finally.
AwaitRejected(c, err) ==
    /\ c.pc \in {"permission", "position", "http"}
    /\ Catch(c, c, err)

\* !d || !d.time || d.time.length === 0
NoDailyData(res) ==
    \/ res.daily = None
    \/ res.daily[1].time = None
    \/ Len(res.daily[1].time[1]) = 0

\* d.temperature_2m_max[index] of an absent array throws a TypeError (its
\* message is the engine's; one fixed text stands for it).
MapThrows(d) == d.temperature_2m_max = None \/ d.temperature_2m_min = None

\* axios.get resolves: validate, map, slice, publish.
HttpResolved(c, res) ==
    /\ c.pc = "http"
    /\ LET done == [c EXCEPT !.response = Some(res)]
       IN  IF NoDailyData(res)
           THEN Catch(c, done, [message |-> Some("No daily forecast data received.")])
           ELSE IF MapThrows(res.daily[1])
           THEN Catch(c, done, [message |-> Some("Cannot read properties of undefined")])
           ELSE LET d == res.daily[1]
                    mapped == [i \in 1..Len(d.time[1]) |-> MapDay(d, i)]
                IN  /\ daily' = SliceDays(mapped)
                    /\ Finally(c, done, "ready")
                    /\ UNCHANGED <<error, place, coords>>

\* The list view renders the card of entry i.
RenderDayCard(i) ==
    /\ ListViewRendered
    /\ i \in 1..Len(daily)
    /\ card' = Some(Cards[i])
    /\ UNCHANGED <<loading, refreshing, error, daily, place, coords,
                   mounted, started, inflight, last>>

Next ==
    \/ UseEffect
    \/ OnRefresh
    \/ \E c \in inflight :
         \/ \E status \in PermissionStatuses : PermissionResolved(c, status)
         \/ \E loc \in Positions : PositionResolved(c, loc)
         \/ \E results \in GeocodeResults : GeocodeResolved(c, results)
         \/ \E err \in Rejections : GeocodeRejected(c, err)
         \/ \E err \in Rejections : AwaitRejected(c, err)
         \/ \E res \in Responses : HttpResolved(c, res)
    \/ \E i \in 1..MaxDates : RenderDayCard(i)

Spec == Init /\ [][Next]_vars

(* ----------------------------------------- the classifier on any day record *)

PopInputs == {None, Some(Rat(0, 1)), Some(Rat(19, 100)), Some(Rat(1, 5)),
              Some(Rat(39, 100)), Some(Rat(2, 5)), Some(Rat(1, 2)), Some(Rat(1, 1))}

WeatherItem(id) == [id |-> id, main |-> "", description |-> "", icon |-> "10d"]

WeatherInputs ==
    {None, Some(<<>>), Some(<<WeatherItem(None)>>)}
    \cup {Some(<<WeatherItem(Some(id))>>) : id \in {0, 95, 199, 200, 599, 600, 800}}

DayRecords ==
    {[dt |-> NoonSeconds(20409), temp |-> [max |-> Some(15), min |-> Some(5)],
      pop |-> p, weather |-> w] : p \in PopInputs, w \in WeatherInputs}

\* The list view holding one arbitrary day record.
InitAdvice ==
    /\ loading = FALSE
    /\ refreshing = FALSE
    /\ error = None
    /\ daily \in {<<d>> : d \in DayRecords}
    /\ place = None
    /\ coords = None
    /\ mounted = TRUE
    /\ started = 0
    /\ inflight = {}
    /\ last = None
    /\ card = None

NextAdvice == \E i \in 1..MaxDates : RenderDayCard(i)

SpecAdvice == InitAdvice /\ [][NextAdvice]_vars

(* ---------------------------------------------------------------- claims *)

\* The decision table the classifier is held to, on pop in [0,1] as a
\* fraction and the code as an integer, after the defaults are applied.
TableAdvice(num, den, code) ==
    IF 10 * num >= 4 * den \/ (200 <= code /\ code < 600) THEN "no"
    ELSE IF 10 * num >= 2 * den THEN "optional"
    ELSE "cover"

RenderedDay == daily[card[1].index + 1]

\* C1: getCarCoverAdvice is total and equals the decision table on every day
\* record: pop defaults to 0 when absent, the code to 800 when the conditions
\* list is absent or empty; 'no' (label "No cover needed", red) when
\* pop >= 0.4 or 200 <= code < 600, else 'optional' when pop >= 0.2, else
\* 'cover'.
C1_AdviceIsDecisionTable ==
    card # None =>
        LET d == RenderedDay
            num == IF d.pop = None THEN 0 ELSE d.pop[1].num
            den == IF d.pop = None THEN 1 ELSE d.pop[1].den
            code == IF d.weather = None \/ d.weather = Some(<<>>) THEN 800
                    ELSE IF d.weather[1][1].id = None THEN 800
                    ELSE d.weather[1][1].id[1]
        IN  /\ card[1].advice \in {"cover", "optional", "no"}
            /\ card[1].advice = TableAdvice(num, den, code)
            /\ card[1].advice = "no" =>
                  card[1].label = "No cover needed" /\ card[1].badgeColor = "#dc2626"

\* A card of a record with no conditions list and pop exactly 0.4: 'no'.
C1_Witness ==
    /\ card # None
    /\ RenderedDay.weather = None
    /\ RenderedDay.pop = Some(Rat(2, 5))
    /\ card[1].advice = "no"

\* C2: a cycle whose permission request resolves to a status other than
\* granted ends in the Error state with the "Location permission denied"
\* message and loading cleared, having issued no position, reverse-geocode or
\* HTTP request.
C2_PermissionDeniedHalts ==
    (last # None /\ last[1].status # None /\ last[1].status # Some("granted")) =>
        /\ last[1].pc = "error"
        /\ error = Some("Location permission denied. Enable it in Settings.")
        /\ ~loading
        /\ ErrorViewRendered
        /\ last[1].issued = {"permission"}

\* A cycle finished on the status "undetermined".
C2_Witness ==
    /\ last # None
    /\ last[1].status = Some("undetermined")
    /\ ErrorViewRendered

\* C3: in the Error state (a finished cycle that failed) the refresh control
\* is offered, so that a new cycle can be started from it.
C3_RefreshOfferedInError ==
    (inflight = {} /\ last # None /\ last[1].pc = "error") => RefreshControlRendered

\* Every per-day array that is present is as long as the non-empty date series.
WellFormed(res) ==
    /\ ~NoDailyData(res)
    /\ LET d == res.daily[1]
           n == Len(d.time[1])
           fits(arr) == arr = None \/ Len(arr[1]) = n
       IN  /\ fits(d.temperature_2m_max)
           /\ fits(d.temperature_2m_min)
           /\ fits(d.precipitation_probability_max)
           /\ fits(d.weathercode)

\* C4: a cycle reaches Ready only on a response with a non-empty date series
\* whose present per-day arrays all have the length of the date series; any
\* other response ends the cycle in Error.
C4_ReadyOnlyIfWellFormed ==
    (last # None /\ last[1].response # None) =>
        (last[1].pc = "ready" => WellFormed(last[1].response[1]))

\* C5: a cycle that ends in Error leaves the place name, the coordinates and
\* the day list exactly as they were when it started.
C5_FailedCyclePublishesNothing ==
    [][\A c \in inflight :
          (last' # None /\ last'[1].id = c.id /\ last'[1].pc = "error") =>
              /\ place' = c.pre.place
              /\ coords' = c.pre.coords
              /\ daily' = c.pre.daily]_vars

\* The error a finished cycle publishes, from its permission, position and
\* forecast outcomes alone (None: the cycle succeeds).
ErrorWithoutGeocode(l) ==
    LET thrownAt(pc) == l.thrown # None /\ l.thrown[1].at = pc
        message == IF l.thrown[1].err.message = None
                   THEN Some("Failed to load weather.")
                   ELSE l.thrown[1].err.message
    IN  IF l.status = None THEN (IF thrownAt("permission") THEN message ELSE Some("?"))
        ELSE IF l.status # Some("granted")
        THEN Some("Location permission denied. Enable it in Settings.")
        ELSE IF l.position = None
        THEN (IF thrownAt("position") THEN message ELSE Some("?"))
        ELSE IF l.response = None
        THEN (IF thrownAt("http") THEN message ELSE Some("?"))
        ELSE IF NoDailyData(l.response[1]) THEN Some("No daily forecast data received.")
        ELSE IF MapThrows(l.response[1].daily[1])
        THEN Some("Cannot read properties of undefined")
        ELSE None

\* C6: reverse geocoding is non-fatal: the finished cycle's state (Ready or
\* Error, the message, the day list, the coordinates) is what its permission,
\* position and forecast outcomes alone decide; when reverse geocoding
\* throws, the forecast request is still issued, no error comes from it and
\* the place name is absent.
C6_GeocodeNonFatal ==
    last # None =>
        LET l == last[1]
            expected == ErrorWithoutGeocode(l)
        IN  /\ error = expected
            /\ l.pc = (IF expected = None THEN "ready" ELSE "error")
            /\ l.position # None =>
                  coords = Some([lat |-> l.position[1].latitude,
                                 lon |-> l.position[1].longitude])
            /\ l.pc = "ready" =>
                  LET d == l.response[1].daily[1]
                  IN  daily = SliceDays([i \in 1..Len(d.time[1]) |-> MapDay(d, i)])
            /\ l.geocode = "rejected" =>
                  /\ "http" \in l.issued
                  /\ place = None
                  /\ (l.thrown # None => l.thrown[1].at = "http")

\* A cycle whose reverse geocoding threw and that still reached Ready.
C6_Witness ==
    /\ last # None
    /\ last[1].geocode = "rejected"
    /\ last[1].pc = "ready"
    /\ place = None
    /\ ListViewRendered
    /\ Len(daily) > 0

\* C7: the published day list never has more than 7 entries; after a
\* successful cycle on a response with n >= 1 dates it has min(n, 7) entries,
\* entry i being the normalization of the provider's i-th date.
C7_FirstSevenInOrder ==
    /\ Len(daily) <= 7
    /\ (last # None /\ last[1].pc = "ready") =>
          LET d == last[1].response[1].daily[1]
              n == Len(d.time[1])
          IN  /\ n >= 1
              /\ Len(daily) = (IF n < 7 THEN n ELSE 7)
              /\ \A i \in 1..Len(daily) :
                    /\ daily[i] = MapDay(d, i)
                    /\ daily[i].dt = d.time[1][i] * 86400 + 43200

\* A successful cycle on a response of more than 7 dates.
C7_Witness ==
    /\ last # None
    /\ last[1].pc = "ready"
    /\ Len(last[1].response[1].daily[1].time[1]) > 7
    /\ Len(daily) = 7

\* C8: exactly one of the three views is rendered: the loading indicator
\* whenever a cycle is in flight (before the mount effect, the initial load,
\* a refresh), the error message whenever the last finished cycle failed,
\* and otherwise the list.
C8_ExactlyOneView ==
    LET inFlight == ~mounted \/ inflight # {}
        failed == ~inFlight /\ last # None /\ last[1].pc = "error"
    IN  /\ LoadingViewRendered <=> inFlight
        /\ ErrorViewRendered <=> failed
        /\ ListViewRendered <=> (~inFlight /\ ~failed)

\* C9: at most one acquisition cycle is in flight, it is the latest one
\* started, and loading is raised while it runs.
C9_AtMostOneCycle ==
    /\ Cardinality(inflight) <= 1
    /\ \A c \in inflight : c.id = started /\ loading

\* A user-triggered refresh in flight, waiting for the forecast.
C9_Witness ==
    /\ refreshing
    /\ \E c \in inflight : c.id > 1 /\ c.pc = "http"

PopOnlyAdvice(pop) ==
    IF pop.num * 10 >= 4 * pop.den THEN "no"
    ELSE IF pop.num * 10 >= 2 * pop.den THEN "optional"
    ELSE "cover"

====
